---- MODULE Spec2Model ----
(***************************************************************************)
(* combie-go: the tag-driven batch aggregation engine of combine.go.       *)
(* A Combine holds a handler registry and a concurrency flag; Process      *)
(* scans a batch of records, groups tagged field values per function name, *)
(* invokes each handler once and binds the results back to the records.    *)
(***************************************************************************)
EXTENDS Integers, Sequences, FiniteSets, TLC

\* Longest batch handed to Process.
MaxItems == 2

\* ------------------------------------------------------------------ values
\* A Go value boxed in `any`: its dynamic kind and a payload.  Kind "nil" is
\* the nil interface; "slice" stands for []string (not hashable).
V(k, n) == [k |-> k, v |-> n]
IntV(n) == V("int", n)
StrV(n) == V("str", n)
SliceV(n) == V("slice", n)
NilV == V("nil", 0)
\* Outcome of evaluating an expression that panics at run time.
PanicV == V("panic", 0)

\* reflect.Zero(t) for a field of kind k; Zero of `any` is the nil interface.
Zero(k) == IF k = "any" THEN NilV ELSE V(k, 0)

\* Map keys of interface type panic on a dynamic type that is not comparable.
Hashable(val) == val.k # "slice"

\* ------------------------------------------------------------------ errors
Err(kind, arg) == [kind |-> kind, arg |-> arg]
NoErr == Err("nil", "")
ErrNotStruct == Err("slice element must be struct or *struct", "")
ErrNotRegistered(name) == Err("handler not registered", name)
ErrHandlerNotFound(name) == Err("aggregate handler not found", name)
ErrCannotSet(fieldName) == Err("cannot set field", fieldName)
ErrCannotAssign(fieldName) == Err("cannot assign to field", fieldName)
ErrNotAddressable == Err("output function requires addressable receiver", "")
ErrMethodNotFound(method) == Err("method not found", method)
ErrArgNotAssignable(method) == Err("argument type not assignable", method)

\* ------------------------------------------------------------ record types
\* A struct field: its name, kind and `combine` tag.  A tag is the list of
\* its comma separated parts, already trimmed; <<>> is the empty tag.
Field(name, kind, tag) == [name |-> name, kind |-> kind, tag |-> tag]

\* The struct types batches are drawn from (all fields exported).
Types == {"obj", "item", "bad", "shared", "merged", "cross", "tags", "nofld"}

Fields(typ) ==
    CASE typ = "obj" ->
           << Field("A", "int", <<"f", "A">>), Field("B", "int", <<"g", "B">>) >>
      [] typ = "item" ->
           << Field("A", "int", <<"f", "fn:SetX">>), Field("B", "str", <<"g">>),
              Field("X", "int", <<>>) >>
      [] typ = "bad" ->
           << Field("A", "int", <<"f", "fn:Nope">>), Field("B", "int", <<"g", "B">>) >>
      [] typ = "shared" ->
           << Field("A", "int", <<"f", "X">>), Field("B", "int", <<"g", "X">>),
              Field("X", "int", <<>>) >>
      [] typ = "merged" ->
           << Field("A", "int", <<"f">>), Field("B", "int", <<"f", "X">>),
              Field("X", "str", <<>>) >>
      [] typ = "cross" ->
           << Field("A", "int", <<"f", "B">>), Field("B", "int", <<"g", "A">>) >>
      [] typ = "tags" ->
           << Field("A", "slice", <<"f">>), Field("B", "int", <<"", "X">>),
              Field("X", "int", <<>>) >>
      [] typ = "nofld" ->
           << Field("A", "int", <<"f", "Z">>), Field("B", "int", <<"g", "B">>) >>

\* Methods of *T that take one parameter: name -> kind of the parameter.
\* Only item has one, SetX(v any), which stores into X.
HasMethod(typ, method) == typ = "item" /\ method = "SetX"
MethodIn(typ, method) == "any"

\* Output targets that carry the "fn:" prefix, and the name after it.
HasFnPrefix(output) == output \in {"fn:SetX", "fn:Nope"}
TrimFnPrefix(output) ==
    CASE output = "fn:SetX" -> "SetX"
      [] output = "fn:Nope" -> "Nope"
      [] OTHER -> output

\* Index of the field called fieldName in typ, 0 when there is none.
FieldByName(typ, fieldName) ==
    LET hits == {i \in 1..Len(Fields(typ)) : Fields(typ)[i].name = fieldName}
    IN IF hits = {} THEN 0 ELSE CHOOSE i \in hits : TRUE

\* ------------------------------------------------------------------ parseTag
ParseFail == [ok |-> FALSE, funcName |-> "", outputTarget |-> ""]
parseTag(tag) ==
    IF tag = <<>> THEN ParseFail
    ELSE IF tag[1] = "" THEN ParseFail
    ELSE [ok |-> TRUE, funcName |-> tag[1],
          outputTarget |-> IF Len(tag) > 1 THEN tag[2] ELSE ""]

\* ------------------------------------------------------------------ handlers
Names == {"f", "g"}
Handlers == {"byIdx", "byVal", "skip0", "toStr"}
NoHandler == "nil"

\* What a handler makes of one submitted value (kind preserved).
Up(val) == V(val.k, val.v + 10)

\* handler.Handle(values, ctx): the result mapping, a function whose domain
\* is the set of keys present.  Positions are zero based, as in the code.
Handle(h, values) ==
    LET n == Len(values) IN
    CASE h = "byIdx" -> [key \in {IntV(i - 1) : i \in 1..n} |-> Up(values[key.v + 1])]
      [] h = "byVal" -> [key \in {values[i] : i \in {j \in 1..n : Hashable(values[j])}}
                            |-> Up(key)]
      [] h = "skip0" -> [key \in {IntV(i - 1) : i \in 2..n} |-> Up(values[key.v + 1])]
      [] h = "toStr" -> [key \in {IntV(i - 1) : i \in 1..n} |-> StrV(7)]

\* ------------------------------------------------------------- conversions
\* reflect's Type.AssignableTo and Type.ConvertibleTo on the kinds modelled:
\* an int converts to a string (the rune conversion), nothing else converts.
AssignableTo(valKind, kind) == kind = "any" \/ valKind = kind
ConvertibleTo(valKind, kind) == valKind = "int" /\ kind = "str"
\* Value.Convert: string(rune(n)), a one character string that is not "n".
Convert(val, kind) == StrV(100 + val.v)

\* ------------------------------------------------------------------- state
VARIABLES
    aggregateHandlers,  \* Combine.aggregateHandlers: name -> handler or NoHandler
    concurrent,         \* Combine.concurrent
    pc,                 \* Process: "idle", "discover", "collect", "dispatch", "done", "panicked"
    typ,                \* struct type of the batch's records
    items,              \* the batch: records as they are now
    orig,               \* the batch as it was handed to Process
    i,                  \* Process: index of the next element to scan (1 based)
    aggregates,         \* Process: funcName -> list of fieldRefs
    tasks,              \* Process: the aggTasks, in map iteration order
    run,                \* per task: where its runTask stands
    cur,                \* sequential mode: index of the running task
    firstErr,           \* concurrent mode: firstErr, set under once.Do
    err,                \* what Process returned
    calls,              \* per name, how often its handler was invoked
    wlog                \* the writes applied to records, in order

vars == << aggregateHandlers, concurrent, pc, typ, items, orig, i, aggregates,
           tasks, run, cur, firstErr, err, calls, wlog >>

\* A batch element: a *T ("ptr"), a T by value ("val") or anything else
\* ("bad": an int, a nil, a pointer to a non-struct).  f holds the fields.
Elem(kind, f) == [kind |-> kind, f |-> f]

\* The field values a record of type t starts with: tagged fields hold 0 or
\* 1, alternating from seed, the others 5.  Records by value all start alike.
StartFields(t, seed) ==
    [fi \in 1..Len(Fields(t)) |->
        V(Fields(t)[fi].kind,
          IF Fields(t)[fi].tag = <<>> THEN 5 ELSE (seed + fi - 1) % 2)]

Elems(t) ==
    {Elem("ptr", StartFields(t, seed)) : seed \in {0, 1}}
        \cup {Elem("val", StartFields(t, 0)), Elem("bad", <<>>)}

Batches(t) == UNION {[1..n -> Elems(t)] : n \in 0..MaxItems}

EmptyMap == [key \in {} |-> NilV]
NoAggregates == [name \in Names |-> <<>>]
TaskRun(state, handler, result, e) ==
    [pc |-> state, idx |-> 0, handler |-> handler, result |-> result, err |-> e]

\* New(opts...): an empty registry; WithConcurrent may have been given.
Init ==
    /\ aggregateHandlers = [name \in Names |-> NoHandler]
    /\ concurrent \in BOOLEAN
    /\ pc = "idle"
    /\ typ = "obj"
    /\ items = <<>>
    /\ orig = <<>>
    /\ i = 1
    /\ aggregates = NoAggregates
    /\ tasks = <<>>
    /\ run = <<>>
    /\ cur = 1
    /\ firstErr = NoErr
    /\ err = NoErr
    /\ calls = [name \in Names |-> 0]
    /\ wlog = <<>>

\* ---------------------------------------------------------------- Register
\* Register storing whatever it is given, a nil handler included.
RegisterUnchecked(name, fn) ==
    /\ aggregateHandlers' = [aggregateHandlers EXCEPT ![name] = fn]
    /\ UNCHANGED << concurrent, pc, typ, items, orig, i, aggregates, tasks, run,
                    cur, firstErr, err, calls, wlog >>

Register(name, fn) ==
    /\ fn # NoHandler
    /\ aggregateHandlers' = [aggregateHandlers EXCEPT ![name] = fn]
    /\ UNCHANGED << concurrent, pc, typ, items, orig, i, aggregates, tasks, run,
                    cur, firstErr, err, calls, wlog >>

\* ----------------------------------------------------------------- Process
\* Entry of Process: an empty batch returns nil at once.
ProcessStart(t, batch) ==
    /\ pc = "idle"
    /\ typ' = t
    /\ items' = batch
    /\ orig' = batch
    /\ i' = 1
    /\ aggregates' = NoAggregates
    /\ IF Len(batch) = 0
       THEN pc' = "done" /\ err' = NoErr
       ELSE pc' = "discover" /\ UNCHANGED err
    /\ UNCHANGED << aggregateHandlers, concurrent, tasks, run, cur, firstErr,
                    calls, wlog >>

FieldRef(item, fieldIdx, fieldVal, output) ==
    [item |-> item, fieldIdx |-> fieldIdx, fieldVal |-> fieldVal, output |-> output]

\* scanFields with the unregistered directive skipped like an untagged field.
RECURSIVE scanFieldsSkipUnregistered(_, _, _, _)
scanFieldsSkipUnregistered(reg, n, fi, aggs) ==
    IF fi > Len(Fields(typ)) THEN [err |-> NoErr, aggs |-> aggs]
    ELSE LET spec == parseTag(Fields(typ)[fi].tag)
             ref == FieldRef(n, fi, items[n].f[fi], spec.outputTarget)
         IN IF ~spec.ok \/ reg[spec.funcName] = NoHandler
            THEN scanFieldsSkipUnregistered(reg, n, fi + 1, aggs)
            ELSE scanFieldsSkipUnregistered(reg, n, fi + 1,
                            [aggs EXCEPT ![spec.funcName] = Append(@, ref)])

\* The field loop of the first pass over element n, from field fi on.
RECURSIVE scanFields(_, _, _, _)
scanFields(reg, n, fi, aggs) ==
    IF fi > Len(Fields(typ)) THEN [err |-> NoErr, aggs |-> aggs]
    ELSE LET spec == parseTag(Fields(typ)[fi].tag)
             ref == FieldRef(n, fi, items[n].f[fi], spec.outputTarget)
         IN IF ~spec.ok THEN scanFields(reg, n, fi + 1, aggs)
            ELSE IF reg[spec.funcName] # NoHandler
            THEN scanFields(reg, n, fi + 1,
                            [aggs EXCEPT ![spec.funcName] = Append(@, ref)])
            ELSE [err |-> ErrNotRegistered(spec.funcName), aggs |-> aggs]

\* One turn of the first pass: element i.
Discover ==
    /\ pc = "discover"
    /\ i <= Len(items)
    /\ IF items[i].kind = "bad"
       THEN /\ pc' = "done"
            /\ err' = ErrNotStruct
            /\ UNCHANGED << i, aggregates >>
       ELSE LET r == scanFields(aggregateHandlers, i, 1, aggregates)
            IN IF r.err # NoErr
               THEN /\ pc' = "done"
                    /\ err' = r.err
                    /\ UNCHANGED << i, aggregates >>
               ELSE /\ aggregates' = r.aggs
                    /\ i' = i + 1
                    /\ pc' = IF i = Len(items) THEN "collect" ELSE "discover"
                    /\ UNCHANGED err
    /\ UNCHANGED << aggregateHandlers, concurrent, typ, items, orig, tasks, run,
                    cur, firstErr, calls, wlog >>

\* AggTask with the values gathered from the last fieldRef to the first.
AggTaskReversed(name, refs) ==
    [name |-> name, refs |-> refs,
     values |-> [k \in 1..Len(refs) |-> refs[Len(refs) + 1 - k].fieldVal]]

AggTask(name, refs) ==
    [name |-> name, refs |-> refs,
     values |-> [k \in 1..Len(refs) |-> refs[k].fieldVal]]

\* The orders `range aggregates` may yield: any order of the keys present.
MapOrders(aggs) ==
    LET keys == {name \in Names : aggs[name] # <<>>}
    IN {o \in [1..Cardinality(keys) -> keys] :
           \A a, b \in 1..Cardinality(keys) : a # b => o[a] # o[b]}

\* The aggTasks built when the map yields its keys in this order.
tasksIn(aggs, order) == [k \in 1..Len(order) |-> AggTask(order[k], aggs[order[k]])]

\* BuildTasks with one task per fieldRef instead of one per function name.
BuildTasksPerRef ==
    /\ pc = "collect"
    /\ \E order \in MapOrders(aggregates) :
          LET flat == [k \in 1..Len(order) |-> aggregates[order[k]]]
              all == IF Len(order) = 0 THEN <<>>
                     ELSE IF Len(order) = 1 THEN flat[1] ELSE flat[1] \o flat[2]
              nameAt(k) == IF k <= Len(flat[1]) THEN order[1] ELSE order[2]
          IN tasks' = [k \in 1..Len(all) |-> AggTask(nameAt(k), << all[k] >>)]
    /\ run' = [k \in 1..Len(tasks') |-> TaskRun("ready", NoHandler, EmptyMap, NoErr)]
    /\ cur' = 1
    /\ firstErr' = NoErr
    /\ pc' = "dispatch"
    /\ UNCHANGED << aggregateHandlers, concurrent, typ, items, orig, i,
                    aggregates, err, calls, wlog >>

\* tasks := one aggTask per key of aggregates, in map iteration order.
BuildTasks ==
    /\ pc = "collect"
    /\ \E order \in MapOrders(aggregates) : tasks' = tasksIn(aggregates, order)
    /\ run' = [k \in 1..Len(tasks') |-> TaskRun("ready", NoHandler, EmptyMap, NoErr)]
    /\ cur' = 1
    /\ firstErr' = NoErr
    /\ pc' = "dispatch"
    /\ UNCHANGED << aggregateHandlers, concurrent, typ, items, orig, i,
                    aggregates, err, calls, wlog >>

\* ---------------------------------------------------------------- write-back
\* lookupOut without the match by original value.
lookupOutIndexOnly(result, idx, fieldVal) ==
    IF IntV(idx) \in DOMAIN result THEN result[IntV(idx)] ELSE NilV

\* The value bound to the entry at position idx (zero based) of a task.
\* Indexing the map with a key whose dynamic type is not hashable panics.
lookupOut(result, idx, fieldVal) ==
    IF IntV(idx) \in DOMAIN result THEN result[IntV(idx)]
    ELSE IF ~Hashable(fieldVal) THEN PanicV
    ELSE IF fieldVal \in DOMAIN result THEN result[fieldVal]
    ELSE NilV

\* Outcome of one write-back: an error, or the batch with field fi of
\* element n holding val.
Failed(e) == [err |-> e, items |-> <<>>, field |-> 0, val |-> NilV]
Stored(its, n, fi, val) ==
    [err |-> NoErr, items |-> [its EXCEPT ![n].f[fi] = val], field |-> fi, val |-> val]

\* A field can be set only through a pointer: the struct inside an `any`
\* is not addressable.
CanSet(its, n, fi) == fi # 0 /\ its[n].kind = "ptr"

\* setField leaving the field as it is when there is no value for it.
setFieldKeepOnNil(its, n, fieldName, value) ==
    LET fi == FieldByName(typ, fieldName) IN
    IF ~CanSet(its, n, fi) THEN Failed(ErrCannotSet(fieldName))
    ELSE LET kind == Fields(typ)[fi].kind IN
         IF value = NilV THEN Stored(its, n, fi, its[n].f[fi])
         ELSE IF AssignableTo(value.k, kind) THEN Stored(its, n, fi, value)
         ELSE IF ConvertibleTo(value.k, kind)
         THEN Stored(its, n, fi, Convert(value, kind))
         ELSE Failed(ErrCannotAssign(fieldName))

setField(its, n, fieldName, value) ==
    LET fi == FieldByName(typ, fieldName) IN
    IF ~CanSet(its, n, fi) THEN Failed(ErrCannotSet(fieldName))
    ELSE LET kind == Fields(typ)[fi].kind IN
         IF value = NilV THEN Stored(its, n, fi, Zero(kind))
         ELSE IF AssignableTo(value.k, kind) THEN Stored(its, n, fi, value)
         ELSE IF ConvertibleTo(value.k, kind)
         THEN Stored(its, n, fi, Convert(value, kind))
         ELSE Failed(ErrCannotAssign(fieldName))

\* (*T).SetX(v any): stores an int as it is and 0 for anything else.
SetX(its, n, in) ==
    Stored(its, n, FieldByName(typ, "X"), IF in.k = "int" THEN in ELSE IntV(0))

\* callOutputFunc that lets a missing method pass: nothing is called, nil
\* is returned.
callOutputFuncLenient(its, n, method, arg) ==
    IF its[n].kind # "ptr" THEN Failed(ErrNotAddressable)
    ELSE IF ~HasMethod(typ, method)
    THEN [err |-> NoErr, items |-> its, field |-> 0, val |-> NilV]
    ELSE LET kind == MethodIn(typ, method) IN
         IF arg = NilV THEN SetX(its, n, Zero(kind))
         ELSE IF AssignableTo(arg.k, kind) THEN SetX(its, n, arg)
         ELSE IF ConvertibleTo(arg.k, kind) THEN SetX(its, n, Convert(arg, kind))
         ELSE Failed(ErrArgNotAssignable(method))

callOutputFunc(its, n, method, arg) ==
    IF its[n].kind # "ptr" THEN Failed(ErrNotAddressable)
    ELSE IF ~HasMethod(typ, method) THEN Failed(ErrMethodNotFound(method))
    ELSE LET kind == MethodIn(typ, method) IN
         IF arg = NilV THEN SetX(its, n, Zero(kind))
         ELSE IF AssignableTo(arg.k, kind) THEN SetX(its, n, arg)
         ELSE IF ConvertibleTo(arg.k, kind) THEN SetX(its, n, Convert(arg, kind))
         ELSE Failed(ErrArgNotAssignable(method))

refNameByIndex(idx) == Fields(typ)[idx].name

\* The write-back of one fieldRef with the value out.
writeBack(its, ref, out) ==
    IF ref.output = "" \/ ~HasFnPrefix(ref.output)
    THEN setField(its, ref.item,
                  IF ref.output = "" THEN refNameByIndex(ref.fieldIdx) ELSE ref.output,
                  out)
    ELSE callOutputFunc(its, ref.item, TrimFnPrefix(ref.output), out)

\* ------------------------------------------------------------------ runTask
\* The dispatch loop goes on to the next task whatever the last returned.
CanRunPastFailure(t) ==
    pc = "dispatch" /\ (concurrent \/ \A u \in 1..(t - 1) : run[u].pc \in {"done", "failed"})

\* Task t may take a step: every task has its goroutine in concurrent mode,
\* the loop runs one task at a time otherwise.
CanRun(t) == pc = "dispatch" /\ (concurrent \/ t = cur)

\* Every goroutine sees the loop variable as the loop left it.
taskOfLast(t) == tasks[Len(tasks)]

\* The task the t-th turn of the dispatch loop hands to runTask (t := task).
taskOf(t) == tasks[t]

WriteRec(name, idx, item, field, val) ==
    [task |-> name, idx |-> idx, item |-> item, field |-> field, val |-> val]

\* TaskCall with the values read from the records at the time of the call.
TaskCallRereads(t) ==
    /\ CanRun(t)
    /\ run[t].pc = "ready"
    /\ LET handler == aggregateHandlers[taskOf(t).name]
           refs == taskOf(t).refs
           now == [k \in 1..Len(refs) |-> items[refs[k].item].f[refs[k].fieldIdx]]
       IN
       IF handler = NoHandler
       THEN /\ run' = [run EXCEPT ![t] =
                          TaskRun("failed", NoHandler, EmptyMap,
                                  ErrHandlerNotFound(taskOf(t).name))]
            /\ firstErr' = IF concurrent /\ firstErr = NoErr
                           THEN ErrHandlerNotFound(taskOf(t).name) ELSE firstErr
            /\ UNCHANGED calls
       ELSE /\ run' = [run EXCEPT ![t] =
                          TaskRun("bind", handler, Handle(handler, now), NoErr)]
            /\ calls' = [calls EXCEPT ![taskOf(t).name] = @ + 1]
            /\ UNCHANGED firstErr
    /\ UNCHANGED << aggregateHandlers, concurrent, pc, typ, items, orig, i,
                    aggregates, tasks, cur, err, wlog >>

\* runTask up to the handler's return: look the handler up, invoke it.
TaskCall(t) ==
    /\ CanRun(t)
    /\ run[t].pc = "ready"
    /\ LET handler == aggregateHandlers[taskOf(t).name] IN
       IF handler = NoHandler
       THEN /\ run' = [run EXCEPT ![t] =
                          TaskRun("failed", NoHandler, EmptyMap,
                                  ErrHandlerNotFound(taskOf(t).name))]
            /\ firstErr' = IF concurrent /\ firstErr = NoErr
                           THEN ErrHandlerNotFound(taskOf(t).name) ELSE firstErr
            /\ UNCHANGED calls
       ELSE /\ run' = [run EXCEPT ![t] =
                          TaskRun("bind", handler, Handle(handler, taskOf(t).values), NoErr)]
            /\ calls' = [calls EXCEPT ![taskOf(t).name] = @ + 1]
            /\ UNCHANGED firstErr
    /\ UNCHANGED << aggregateHandlers, concurrent, pc, typ, items, orig, i,
                    aggregates, tasks, cur, err, wlog >>

\* One turn of runTask's write-back loop: the entry at position run[t].idx.
TaskBind(t) ==
    /\ CanRun(t)
    /\ run[t].pc = "bind"
    /\ LET idx == run[t].idx
           ref == taskOf(t).refs[idx + 1]
           out == lookupOut(run[t].result, idx, ref.fieldVal)
           w == writeBack(items, ref, out)
           last == idx + 1 = Len(taskOf(t).refs)
       IN IF out = PanicV
          THEN /\ pc' = "panicked"
               /\ UNCHANGED << items, run, cur, firstErr, wlog >>
          ELSE IF w.err # NoErr
          THEN /\ run' = [run EXCEPT ![t].pc = "failed", ![t].err = w.err]
               /\ firstErr' = IF concurrent /\ firstErr = NoErr THEN w.err ELSE firstErr
               /\ UNCHANGED << pc, items, cur, wlog >>
          ELSE /\ items' = w.items
               /\ wlog' = Append(wlog, WriteRec(taskOf(t).name, idx, ref.item, w.field, w.val))
               /\ run' = [run EXCEPT ![t].pc = IF last THEN "done" ELSE "bind",
                                     ![t].idx = idx + 1]
               /\ cur' = IF last /\ ~concurrent THEN cur + 1 ELSE cur
               /\ UNCHANGED << pc, firstErr >>
    /\ UNCHANGED << aggregateHandlers, concurrent, typ, orig, i, aggregates,
                    tasks, err, calls >>

\* ------------------------------------------------- whole runs, as functions
\* What a piece of Process leaves behind: the error, the records, and
\* whether it panicked on the way.
Outcome(e, its, panicked) == [err |-> e, items |-> its, panic |-> panicked]

\* runTask's write-back loop from position idx on.
RECURSIVE bindFrom(_, _, _, _)
bindFrom(its, task, result, idx) ==
    IF idx = Len(task.refs) THEN Outcome(NoErr, its, FALSE)
    ELSE LET ref == task.refs[idx + 1]
             out == lookupOut(result, idx, ref.fieldVal)
             w == writeBack(its, ref, out)
         IN IF out = PanicV THEN Outcome(NoErr, its, TRUE)
            ELSE IF w.err # NoErr THEN Outcome(w.err, its, FALSE)
            ELSE bindFrom(w.items, task, result, idx + 1)

runTask(its, reg, task) ==
    IF reg[task.name] = NoHandler
    THEN Outcome(ErrHandlerNotFound(task.name), its, FALSE)
    ELSE bindFrom(its, task, Handle(reg[task.name], task.values), 0)

\* The sequential loop from task k on: the first error returns.
RECURSIVE sequentialFrom(_, _, _, _)
sequentialFrom(its, reg, tks, k) ==
    IF k > Len(tks) THEN Outcome(NoErr, its, FALSE)
    ELSE LET r == runTask(its, reg, tks[k])
         IN IF r.panic \/ r.err # NoErr THEN r
            ELSE sequentialFrom(r.items, reg, tks, k + 1)

\* The concurrent branch when the goroutines happen to run one after another
\* from task k on: every task runs, the first error is kept.
RECURSIVE goroutinesFrom(_, _, _, _, _)
goroutinesFrom(its, reg, tks, k, first) ==
    IF k > Len(tks) THEN Outcome(first, its, FALSE)
    ELSE LET r == runTask(its, reg, tks[k])
         IN IF r.panic THEN r
            ELSE goroutinesFrom(r.items, reg, tks, k + 1,
                                IF first = NoErr THEN r.err ELSE first)

\* Return without the wait for the goroutines (no wg.Wait()).
ReturnNoWait ==
    /\ pc = "dispatch"
    /\ IF concurrent
       THEN err' = firstErr
       ELSE \/ cur > Len(tasks) /\ err' = NoErr
            \/ cur <= Len(tasks) /\ run[cur].pc = "failed" /\ err' = run[cur].err
    /\ pc' = "done"
    /\ UNCHANGED << aggregateHandlers, concurrent, typ, items, orig, i,
                    aggregates, tasks, run, cur, firstErr, calls, wlog >>

\* Process returns: after wg.Wait() with firstErr in concurrent mode, at the
\* first failed task or after the last one otherwise.
Return ==
    /\ pc = "dispatch"
    /\ IF concurrent
       THEN /\ \A t \in 1..Len(tasks) : run[t].pc \in {"done", "failed"}
            /\ err' = firstErr
       ELSE \/ cur > Len(tasks) /\ err' = NoErr
            \/ cur <= Len(tasks) /\ run[cur].pc = "failed" /\ err' = run[cur].err
    /\ pc' = "done"
    /\ UNCHANGED << aggregateHandlers, concurrent, typ, items, orig, i,
                    aggregates, tasks, run, cur, firstErr, calls, wlog >>

Next ==
    \/ \E name \in Names, fn \in Handlers : pc = "idle" /\ Register(name, fn)
    \/ \E t \in Types : \E batch \in Batches(t) : ProcessStart(t, batch)
    \/ Discover
    \/ BuildTasks
    \/ \E t \in 1..Len(tasks) : TaskCall(t)
    \/ \E t \in 1..Len(tasks) : TaskBind(t)
    \/ Return

Spec == Init /\ [][Next]_vars

\* ------------------------------------------- Register during a Process call
\* Register called from another goroutine while Process is in flight: the
\* mutex makes it one step between two lookups.  A nil handler panics in
\* Register and stores nothing.
InFlight == pc \in {"discover", "collect", "dispatch"}
RegisterInFlight ==
    \E name \in Names, fn \in Handlers \cup {NoHandler} : InFlight /\ Register(name, fn)

\* The struct types of the batches processed under concurrent registration:
\* two tasks that both succeed, and two of which one fails.
RegTypes == {"obj", "bad"}

NextReg ==
    \/ \E name \in Names, fn \in Handlers : pc = "idle" /\ Register(name, fn)
    \/ \E t \in RegTypes : \E batch \in Batches(t) : ProcessStart(t, batch)
    \/ Discover
    \/ BuildTasks
    \/ \E t \in 1..Len(tasks) : TaskCall(t)
    \/ \E t \in 1..Len(tasks) : TaskBind(t)
    \/ Return
    \/ RegisterInFlight

SpecReg == Init /\ [][NextReg]_vars

\* ------------------------------------------------------ the batch as handed in
\* The directives of the batch: (element, field) pairs whose tag parses.
IsDirective(d) == orig[d[1]].kind # "bad" /\ parseTag(Fields(typ)[d[2]].tag).ok
Directives == {d \in (1..Len(orig)) \X (1..Len(Fields(typ))) : IsDirective(d)}
FuncOf(d) == parseTag(Fields(typ)[d[2]].tag).funcName
OutputOf(d) == parseTag(Fields(typ)[d[2]].tag).outputTarget
\* Some directive of the batch names the function.
Named(name) == \E d \in Directives : FuncOf(d) = name
HasBadElement == \E n \in 1..Len(orig) : orig[n].kind = "bad"
UnregisteredNamed == {name \in Names : Named(name) /\ aggregateHandlers[name] = NoHandler}
Started == pc # "idle"
AllByReference == \A n \in 1..Len(orig) : orig[n].kind = "ptr"
\* The first pass went through the whole batch.
Discovered == Started /\ i > Len(orig)

\* The directives naming a function, in batch order: records in batch order,
\* fields in declaration order.  k runs over the (element, field) grid.
GridSize == Len(orig) * Len(Fields(typ))
GridAt(k) ==
    LET width == Len(Fields(typ))
    IN << ((k - 1) \div width) + 1, ((k - 1) % width) + 1 >>
RECURSIVE occFrom(_, _)
occFrom(name, k) ==
    IF k > GridSize THEN <<>>
    ELSE LET d == GridAt(k)
             spec == parseTag(Fields(typ)[d[2]].tag)
         IN (IF orig[d[1]].kind # "bad" /\ spec.ok /\ spec.funcName = name
             THEN << d >> ELSE <<>>) \o occFrom(name, k + 1)
Occurrences(name) == occFrom(name, 1)
\* Zero based position of directive d among those naming its function.
PosOf(d) ==
    Cardinality({e \in Directives :
                    /\ FuncOf(e) = FuncOf(d)
                    /\ (e[1] < d[1] \/ (e[1] = d[1] /\ e[2] < d[2]))})
OrigValue(d) == orig[d[1]].f[d[2]]
\* What the handler registered under name returns for the batch as handed in.
ResultOf(name) ==
    LET occ == Occurrences(name)
    IN Handle(aggregateHandlers[name], [p \in 1..Len(occ) |-> OrigValue(occ[p])])
\* The value bound to directive d, and the fieldRef of d.
BoundOf(d) == lookupOut(ResultOf(FuncOf(d)), PosOf(d), OrigValue(d))
RefOf(d) == FieldRef(d[1], d[2], OrigValue(d), OutputOf(d))
\* The write-back of d, applied to the batch as handed in.
WriteOf(d) == LET out == BoundOf(d) IN [bound |-> out, w |-> writeBack(orig, RefOf(d), out)]
\* The write-back of d succeeds: no panic in the lookup, no binding error.
Binds(d) == LET x == WriteOf(d) IN x.bound # PanicV /\ x.w.err = NoErr
\* The field d's write-back stores into, and the value it stores.
TargetOf(d) == WriteOf(d).w.field
StoredOf(d) == WriteOf(d).w.val
\* The directives naming a function in batch order, each with the value the
\* result mapping binds to it and its write-back on the batch as handed in.
Bindings(name) ==
    LET occ == Occurrences(name)
        res == Handle(aggregateHandlers[name], [p \in 1..Len(occ) |-> OrigValue(occ[p])])
    IN [p \in 1..Len(occ) |->
           LET out == lookupOut(res, p - 1, OrigValue(occ[p]))
           IN [d |-> occ[p], bound |-> out, w |-> writeBack(orig, RefOf(occ[p]), out)]]
\* The write records of the task named name.
WritesBy(name) == {k \in 1..Len(wlog) : wlog[k].task = name}
\* The write records of directive d.
WritesOf(d) ==
    {k \in 1..Len(wlog) :
        wlog[k].task = FuncOf(d) /\ wlog[k].idx = PosOf(d) /\ wlog[k].item = d[1]}
BindingErrors ==
    {"cannot set field", "cannot assign to field", "method not found",
     "output function requires addressable receiver", "argument type not assignable"}

\* -------------------------------------------------------------------- C1
\* C1: in one Process call the handler of a name is invoked at most once;
\* when Process has returned success it was invoked exactly once if some
\* directive of the batch names it and not at all otherwise.
C1_OncePerBatch ==
    /\ \A name \in Names : calls[name] <= 1
    /\ (pc = "done" /\ err = NoErr) =>
          \A name \in Names : calls[name] = IF Named(name) THEN 1 ELSE 0

\* A successful call on two records whose four directives all name f, with
\* g registered and named by none.
C1_Witness ==
    /\ pc = "done" /\ err = NoErr
    /\ typ = "merged" /\ Len(orig) = 2
    /\ Cardinality({d \in Directives : FuncOf(d) = "f"}) = 4
    /\ aggregateHandlers["g"] # NoHandler
    /\ calls["f"] = 1 /\ calls["g"] = 0

\* -------------------------------------------------------------------- C2
\* C2: when discovery fails (an element that is no record, or a directive
\* naming an unregistered function) Process returns an error, which names a
\* missing function in the unregistered case; no handler has been invoked
\* and no field of the batch has been written.
C2_DiscoveryFailure ==
    (Started /\ (HasBadElement \/ UnregisteredNamed # {})) =>
        /\ pc \in {"discover", "done"}
        /\ \A name \in Names : calls[name] = 0
        /\ items = orig /\ wlog = <<>>
        /\ pc = "done" =>
              err \in {ErrNotRegistered(name) : name \in UnregisteredNamed}
                        \cup (IF HasBadElement THEN {ErrNotStruct} ELSE {})

\* The offending element comes second, after a record whose directives were
\* all collected.
C2_Witness ==
    /\ pc = "done" /\ err = ErrNotStruct
    /\ Len(orig) = 2 /\ orig[1].kind = "ptr" /\ orig[2].kind = "bad"
    /\ aggregates["f"] # <<>> /\ aggregates["g"] # <<>>

LocOf(d) ==
    IF OutputOf(d) = "" THEN d[2]
    ELSE IF ~HasFnPrefix(OutputOf(d)) THEN FieldByName(typ, OutputOf(d))
    ELSE IF HasMethod(typ, TrimFnPrefix(OutputOf(d))) THEN FieldByName(typ, "X")
    ELSE 0
\* Independent single-field tasks: a function is named by one field of the
\* record type, and directives of different functions store into different
\* fields.
Independent ==
    \A d1, d2 \in Directives :
        /\ FuncOf(d1) = FuncOf(d2) => d1[2] = d2[2]
        /\ (FuncOf(d1) # FuncOf(d2) /\ d1[1] = d2[1]) => LocOf(d1) # LocOf(d2)
\* Process in sequential mode on the batch as handed in, for a map order.
SequentialRun(order) ==
    sequentialFrom(orig, aggregateHandlers, tasksIn(aggregates, order), 1)

\* C4 as stated: for independent single-field tasks the concurrent mode
\* ends, whatever the interleaving, in the record state the sequential mode
\* ends in.
C4_Original ==
    (pc = "done" /\ concurrent /\ Discovered /\ Independent) =>
        \A order \in MapOrders(aggregates) :
            LET s == SequentialRun(order) IN ~s.panic => items = s.items

\* C4 (amended): for independent single-field tasks, whenever the sequential
\* mode returns success the concurrent mode, under every interleaving, also
\* returns success and ends in the same record state.
C4_SameStateOnSuccess ==
    (pc = "done" /\ concurrent /\ Discovered /\ Independent) =>
        \A order \in MapOrders(aggregates) :
            LET s == SequentialRun(order)
            IN (~s.panic /\ s.err = NoErr) => (items = s.items /\ err = NoErr)

\* Two tasks over two records whose writes alternated between the goroutines.
C4_Witness ==
    /\ pc = "done" /\ concurrent /\ Independent /\ err = NoErr
    /\ Len(tasks) = 2 /\ Len(orig) = 2 /\ Len(wlog) = 4
    /\ wlog[1].task # wlog[2].task /\ wlog[2].task # wlog[3].task
    /\ items # orig

\* -------------------------------------------------------------------- C5
\* C5: within one Process call no two distinct tasks write the same field of
\* the same record, and no two goroutines are ever about to write the same
\* location.
NextLoc(t) ==
    LET ref == taskOf(t).refs[run[t].idx + 1]
    IN << ref.item,
          writeBack(items, ref, lookupOut(run[t].result, run[t].idx, ref.fieldVal)).field >>
C5_OneOwnerPerField ==
    /\ \A k1, k2 \in 1..Len(wlog) :
          (wlog[k1].item = wlog[k2].item /\ wlog[k1].field = wlog[k2].field)
              => wlog[k1].task = wlog[k2].task
    /\ (pc = "dispatch" /\ concurrent) =>
          \A t1, t2 \in 1..Len(tasks) :
              (t1 # t2 /\ run[t1].pc = "bind" /\ run[t2].pc = "bind"
                  /\ NextLoc(t1)[2] # 0)
                  => NextLoc(t1) # NextLoc(t2)

\* -------------------------------------------------------------------- C6
\* Process on the batch as handed in, in the mode of this Combine, with the
\* tasks run one after another in a map order.
ModeRun(order) ==
    IF concurrent
    THEN goroutinesFrom(orig, aggregateHandlers, tasksIn(aggregates, order), 1, NoErr)
    ELSE SequentialRun(order)

\* C6 (here for tasks with fields of their own only): the final field values
\* are those of every other run of Process on the same original batch with
\* the same handlers.
C6_SameFinalValues ==
    (pc = "done" /\ Discovered /\ Independent) =>
        \A order \in MapOrders(aggregates) :
            LET s == ModeRun(order) IN ~s.panic => items = s.items

\* -------------------------------------------------------------------- C7
MissingCallback(d) ==
    HasFnPrefix(OutputOf(d)) /\ ~HasMethod(typ, TrimFnPrefix(OutputOf(d)))
HasMissingCallback == \E d \in Directives : MissingCallback(d)
\* Every field holds what it held before the call or what a directive that
\* stores into it binds to it.
NotCorrupted ==
    \A n \in 1..Len(items) : \A fi \in 1..Len(items[n].f) :
        \/ items[n].f[fi] = orig[n].f[fi]
        \/ \E d \in Directives :
              /\ d[1] = n
              /\ LET x == WriteOf(d)
                 IN /\ x.bound # PanicV /\ x.w.err = NoErr
                    /\ x.w.field = fi /\ items[n].f[fi] = x.w.val

\* C7 as stated (here for records by reference whose directives all name
\* registered functions): with a directive whose callback does not exist,
\* Process returns the "method not found" error and corrupts no field.
C7_Original ==
    (pc = "done" /\ HasMissingCallback /\ AllByReference /\ UnregisteredNamed = {}) =>
        (err = ErrMethodNotFound("Nope") /\ NotCorrupted)

\* C7 (amended): with a directive whose callback does not exist on the
\* record, Process returns an error; it is the "method not found" error when
\* the records are passed by reference, discovery succeeds and every other
\* write-back binds; another failure of the call may be returned in its
\* place.  No field is corrupted: each holds its value from before the call
\* or the value its own task's result mapping assigns to it.
C7_MissingCallback ==
    (pc = "done" /\ HasMissingCallback) =>
        /\ err # NoErr
        /\ (AllByReference /\ UnregisteredNamed = {}
              /\ \A d \in Directives : MissingCallback(d) \/ Binds(d))
              => err = ErrMethodNotFound("Nope")
        /\ NotCorrupted

\* Concurrent mode: the callback is missing, the other task has written its
\* field on both records.
C7_Witness ==
    /\ pc = "done" /\ concurrent /\ typ = "bad" /\ Len(orig) = 2
    /\ err = ErrMethodNotFound("Nope")
    /\ Len(wlog) = 2 /\ items # orig

\* -------------------------------------------------------------------- C8
\* The value the claim binds to position idx: result[idx], else result[v],
\* else absence.
ChainOf(result, idx, v) ==
    IF IntV(idx) \in DOMAIN result THEN result[IntV(idx)]
    ELSE IF v \in DOMAIN result THEN result[v]
    ELSE NilV
\* What a target holds after a write of nothing: the zero value of the
\* field, or what the callback makes of its zero argument.
ZeroWritten(d, fi) ==
    IF HasFnPrefix(OutputOf(d)) THEN IntV(0) ELSE Zero(Fields(typ)[fi].kind)
\* The written values follow the chain, absence writing the zero value.
C8_WritesFollowChain ==
    \A k \in 1..Len(wlog) :
        LET d == Occurrences(wlog[k].task)[wlog[k].idx + 1]
            bound == ChainOf(ResultOf(FuncOf(d)), wlog[k].idx, OrigValue(d))
        IN /\ wlog[k].val = writeBack(orig, RefOf(d), bound).val
           /\ bound = NilV => wlog[k].val = ZeroWritten(d, wlog[k].field)

\* C8 (here for records by reference): the value bound to the entry at
\* position i is result[i], else result[v] for the entry's original value v,
\* else absence, and on absence the target is still written, with the zero
\* value.
C8_LookupChain ==
    AllByReference =>
        /\ pc # "panicked"
        /\ \A t \in 1..Len(tasks) :
              run[t].pc = "bind" =>
                  LET ref == taskOf(t).refs[run[t].idx + 1]
                  IN lookupOut(run[t].result, run[t].idx, ref.fieldVal)
                        = ChainOf(run[t].result, run[t].idx, ref.fieldVal)
        /\ C8_WritesFollowChain

\* -------------------------------------------------------------------- C9
TaskNamed(name) == CHOOSE t \in 1..Len(tasks) : taskOf(t).name = name
AsPointers(batch) == [n \in 1..Len(batch) |-> Elem("ptr", batch[n].f)]
\* C10: a batch of records by value whose directives name registered
\* handlers and whose results fit their targets is processed with success,
\* the results applied as they are for the same records by reference.
C10_ByValueRecords ==
    (pc = "done" /\ Len(orig) > 0 /\ UnregisteredNamed = {}
       /\ \A n \in 1..Len(orig) : orig[n].kind = "val") =>
        \A order \in MapOrders(aggregates) :
            LET byRef == sequentialFrom(AsPointers(orig), aggregateHandlers,
                                        tasksIn(aggregates, order), 1)
            IN (~byRef.panic /\ byRef.err = NoErr) =>
                  /\ err = NoErr
                  /\ \A n \in 1..Len(orig) : items[n].f = byRef.items[n].f

\* ------------------------------------------------------------------- C11
\* The function name n is discovered before m: its first directive comes
\* first in the batch (records in batch order, fields in declaration order).
DiscoveredBefore(n, m) ==
    LET a == Occurrences(n)[1]
        b == Occurrences(m)[1]
    IN a[1] < b[1] \/ (a[1] = b[1] /\ a[2] < b[2])

\* C11: in sequential mode the handlers are invoked in the order in which
\* their function names were first discovered in the batch: a handler has
\* been invoked only when the handler of every name discovered before its
\* own has been invoked too.
C11_DiscoveryOrder ==
    (~concurrent /\ pc \in {"dispatch", "done", "panicked"}) =>
        \A n, m \in Names :
            (Named(n) /\ Named(m) /\ DiscoveredBefore(n, m) /\ calls[m] > 0) =>
                calls[n] > 0

\* ------------------------------------------------------------------- C12
\* C12: in sequential mode, once a task has failed no task after it is
\* started: its handler is not invoked and none of its writes is applied;
\* the error Process returns is the failed task's.
C12_FailFast ==
    (~concurrent /\ pc \in {"dispatch", "done"}) =>
        \A t \in 1..Len(tasks) :
            run[t].pc = "failed" =>
                /\ \A u \in (t + 1)..Len(tasks) :
                      /\ run[u].pc = "ready"
                      /\ calls[tasks[u].name] = 0
                      /\ WritesBy(tasks[u].name) = {}
                /\ \A u \in 1..(t - 1) : run[u].pc = "done"
                /\ pc = "done" => err = run[t].err

\* The first of two tasks fails on its missing callback; the second, whose
\* handler is registered and whose write would bind, was never started.
C12_Witness ==
    /\ ~concurrent /\ pc = "done" /\ typ = "bad" /\ AllByReference
    /\ Len(tasks) = 2 /\ tasks[1].name = "f" /\ aggregateHandlers["g"] = "byIdx"
    /\ run[1].pc = "failed" /\ err = ErrMethodNotFound("Nope")
    /\ run[2].pc = "ready" /\ calls["g"] = 0 /\ items = orig

\* ------------------------------------------------------------------- C13
\* C13: in concurrent mode, when Process returns after a discovery that
\* succeeded, there is one task per function name of the batch and every
\* task has run to its end: its handler was invoked once, and it applied
\* all its writes, or those before its own failure, whatever became of the
\* other tasks.  Process returns success exactly when no task failed, and
\* otherwise the error of one of the failed tasks.
C13_JoinAll ==
    (concurrent /\ pc = "done" /\ Discovered) =>
        /\ {tasks[t].name : t \in 1..Len(tasks)} = {name \in Names : Named(name)}
        /\ \A t \in 1..Len(tasks) :
              /\ run[t].pc \in {"done", "failed"}
              /\ calls[tasks[t].name] = 1
              /\ Cardinality(WritesBy(tasks[t].name)) =
                    IF run[t].pc = "done" THEN Len(tasks[t].refs) ELSE run[t].idx
        /\ (err = NoErr) <=> (\A t \in 1..Len(tasks) : run[t].pc = "done")
        /\ err # NoErr => \E t \in 1..Len(tasks) : run[t].pc = "failed" /\ err = run[t].err

\* Two records, two tasks: f fails on the first record's missing callback,
\* g still writes B of both records, and the error returned is f's.
C13_Witness ==
    /\ concurrent /\ pc = "done" /\ typ = "bad" /\ AllByReference /\ Len(orig) = 2
    /\ \E t, u \in 1..Len(tasks) :
          /\ tasks[t].name = "f" /\ run[t].pc = "failed" /\ run[t].idx = 0
          /\ tasks[u].name = "g" /\ run[u].pc = "done"
          /\ Cardinality(WritesBy("g")) = 2
    /\ err = ErrMethodNotFound("Nope")
    /\ \A n \in 1..2 : items[n].f[2] # orig[n].f[2]

\* ------------------------------------------------------------------- C14
\* The tasks have been built from a discovery that went through the batch.
TasksBuilt == Discovered /\ pc # "collect"

\* C14: within a task the entries are the directives naming the function,
\* those on different fields merged into the one list, in batch order
\* (records in batch order, fields in declaration order within a record);
\* the p-th value submitted is the value of the p-th entry; the write-backs
\* of the task are applied in that order, the one at position p to the
\* record and the target of the p-th entry (the field a write-back stores
\* into does not depend on the value written).
C14_BatchOrder ==
    TasksBuilt =>
        \A t \in 1..Len(tasks) :
            LET refs == tasks[t].refs
                n == Len(refs)
                ws == WritesBy(tasks[t].name)
                F == Fields(typ)
            IN /\ Len(tasks[t].values) = n
               /\ \A e \in 1..Len(orig), fi \in 1..Len(F) :
                     LET spec == parseTag(F[fi].tag)
                     IN (orig[e].kind # "bad" /\ spec.ok /\ spec.funcName = tasks[t].name)
                           <=> \E p \in 1..n : /\ refs[p].item = e /\ refs[p].fieldIdx = fi
                                                /\ refs[p].output = spec.outputTarget
               /\ \A p \in 1..n :
                     /\ tasks[t].values[p] = orig[refs[p].item].f[refs[p].fieldIdx]
                     /\ p < n => \/ refs[p].item < refs[p + 1].item
                                 \/ /\ refs[p].item = refs[p + 1].item
                                    /\ refs[p].fieldIdx < refs[p + 1].fieldIdx
               /\ {wlog[k].idx : k \in ws} = 0..(Cardinality(ws) - 1)
               /\ \A k, l \in ws : k < l => wlog[k].idx < wlog[l].idx
               /\ \A k \in ws :
                     LET ref == refs[wlog[k].idx + 1]
                     IN /\ wlog[k].item = ref.item
                        /\ wlog[k].field = writeBack(orig, ref, NilV).field

\* Two records whose fields A and B both name f: one task of four values,
\* 0, 1, 1, 0 in batch order, and four writes in that order, the second and
\* the fourth into X.
C14_Witness ==
    /\ pc = "done" /\ err = NoErr /\ typ = "merged" /\ Len(orig) = 2
    /\ Len(tasks) = 1 /\ tasks[1].name = "f"
    /\ tasks[1].values = << IntV(0), IntV(1), IntV(1), IntV(0) >>
    /\ Len(wlog) = 4
    /\ \A k \in 1..4 : wlog[k].idx = k - 1 /\ wlog[k].item = (k + 1) \div 2
    /\ wlog[2].field = wlog[4].field /\ wlog[1].field # wlog[2].field

\* ------------------------------------------------------------------- C15
\* The handler of task t has been invoked and has returned.
Called(t) == run[t].handler # NoHandler

\* The values the fields of task t's directives held when Process was called.
ValuesAtCall(t) ==
    [p \in 1..Len(tasks[t].refs) |->
        orig[tasks[t].refs[p].item].f[tasks[t].refs[p].fieldIdx]]

\* C15: every handler is invoked with the values the fields held when
\* Process was called, in both modes: the result a task holds is what its
\* handler returns for those values, whatever has been written to the
\* records by then.
C15_ValuesFromDiscovery ==
    TasksBuilt =>
        \A t \in 1..Len(tasks) :
            /\ tasks[t].values = ValuesAtCall(t)
            /\ Called(t) => run[t].result = Handle(run[t].handler, ValuesAtCall(t))

\* Records whose fields A and B feed f and g and are each the other's
\* output, tasks one after another: the second handler has been invoked
\* when its source field already held the value written by the first task.
C15_Witness ==
    /\ ~concurrent /\ typ = "cross" /\ pc = "dispatch" /\ Len(tasks) = 2
    /\ \E t \in 1..2 :
          /\ run[t].pc = "bind" /\ run[t].idx = 0
          /\ run[3 - t].pc = "done"
          /\ \E p \in 1..Len(tasks[t].refs) :
                items[tasks[t].refs[p].item].f[tasks[t].refs[p].fieldIdx]
                    # tasks[t].values[p]

\* ------------------------------------------------------------------- C16
\* No step takes an entry out of the registry.
RegistryGrows ==
    \A name \in Names :
        aggregateHandlers[name] # NoHandler => aggregateHandlers'[name] # NoHandler

\* A task that is dispatched in this step invokes the handler the registry
\* holds under its name in this step.
DispatchReadsRegistry ==
    \A t \in 1..Len(run) :
        (run[t].pc = "ready" /\ run'[t].pc # "ready") =>
            /\ run'[t].pc = "bind"
            /\ run'[t].handler = aggregateHandlers[tasks[t].name]
            /\ run'[t].result = Handle(aggregateHandlers[tasks[t].name], tasks[t].values)

NeverNotFound ==
    /\ err.kind # "aggregate handler not found"
    /\ \A t \in 1..Len(run) : run[t].err.kind # "aggregate handler not found"

\* C16: with Register calls interleaved at will with a Process call, no
\* registry entry is ever removed, no task fails at dispatch with "aggregate
\* handler not found", and the handler a task invokes is the one registered
\* under its name at the moment the task is dispatched.
C16_RegisterInFlight ==
    /\ []NeverNotFound
    /\ [][RegistryGrows /\ DispatchReadsRegistry]_vars

\* A sequential call that returned success although f was registered anew
\* between the dispatch of the first task and the return, and g before its
\* own dispatch: the registry no longer holds the handler f's task invoked.
C16_Witness ==
    /\ ~concurrent /\ pc = "done" /\ err = NoErr /\ typ = "obj" /\ Len(tasks) = 2
    /\ tasks[1].name = "f"
    /\ run[1].handler = "byIdx" /\ aggregateHandlers["f"] = "skip0"
    /\ run[2].handler = "byVal" /\ aggregateHandlers["g"] = "byVal"

====
